---------------------------- MODULE Spec2Model ----------------------------
(***************************************************************************)
(* A model of base/base.py: the BaseCleaner singleton, its validation      *)
(* pass (__run_checks__), the base-directory setter (set_base_dir), path   *)
(* discovery (_discover_paths) and the bounded-retry confirmation prompt   *)
(* (__get_feedback__).                                                     *)
(*                                                                         *)
(* Python values are encoded as follows.                                   *)
(*   - A resolved path is the sequence of its components below the root:   *)
(*     <<>> is "/", <<"d">> is "/d".  The class attribute BASE_DIR = ''    *)
(*     is EMPTY, a sequence that is no path.                               *)
(*   - An argument to Path(...) is [abs, parts]: whether it starts at the  *)
(*     root, and its components, "." and ".." included.                    *)
(*   - A value of VERBOSE is [cls, truthy]: its class and its truth value. *)
(*   - An element of VALID_OPTIONS is "int:1" for the int 1 and "1" for    *)
(*     the str '1'; a line read from stdin is a str.                       *)
(***************************************************************************)
EXTENDS Integers, Sequences, FiniteSets, TLC

VARIABLES
    flavour,        \* "posix" or "nt": which pathlib flavour Path is
    instance,       \* TRUE once __new__ has stored cls.instance
    BASE_DIR,       \* self.BASE_DIR
    VERBOSE,        \* self.VERBOSE
    VALID_OPTIONS,  \* self.VALID_OPTIONS
    call,           \* the most recent call and its arguments
    err,            \* the exception the most recent call raised, or "none"
    res,            \* what the most recent __run_checks__ call returned
    out,            \* what iterating the last _discover_paths result yields
    log,            \* stdout and callback invocations of the most recent call
    pc,             \* "idle", "loop" (blocked in input()), "done", "exit(0)"
    num,            \* the loop variable of __get_feedback__
    no_of_trials,   \* its no_of_trials argument
    noExits,        \* whether its `no` callback ends the process
    ctx,            \* who called it: "init" (__init__) or "call"
    kw,             \* the verbose keyword __init__ is holding meanwhile
    inputs          \* the lines input() has returned in this prompt

vars == <<flavour, instance, BASE_DIR, VERBOSE, VALID_OPTIONS, call, err, res,
          out, log, pc, num, no_of_trials, noExits, ctx, kw, inputs>>

---------------------------------------------------------------------------
(* Bounds *)

\* Longest argument to Path(...), in components.
MaxParts == 2
\* Largest no_of_trials a caller of __get_feedback__ passes.
MaxTrials == 3

---------------------------------------------------------------------------
(* Sequences *)

Range(s) == {s[i] : i \in 1..Len(s)}

RECURSIVE SeqsUpTo(_, _)
SeqsUpTo(S, n) ==
    IF n = 0 THEN {<<>>}
    ELSE LET shorter == SeqsUpTo(S, n - 1)
         IN  shorter \cup {Append(s, x) : s \in {t \in shorter : Len(t) = n - 1}, x \in S}

Count(s, e) == Cardinality({i \in 1..Len(s) : s[i] = e})

---------------------------------------------------------------------------
(* The filesystem and pathlib *)

\* The str '': a sequence no resolved path equals.
EMPTY == <<"">>

\* The process's working directory, against which relative paths resolve.
CWD == <<"d">>

DEFAULT_BASE_DIR == <<"d">>

\* The directory tree: the entries of each existing directory, in the order
\* iterdir() yields them.  A name holding a backslash exists on posix only.
Entries(fl, p) ==
    CASE p = <<>>         -> <<"d">>
      [] p = <<"d">>      -> IF fl = "posix" THEN <<"e\\.g", "d", "f">> ELSE <<"d", "f">>
      [] p = <<"d", "d">> -> <<"a", ".b", "c.txt">>
      [] OTHER            -> <<>>

Directories == {<<>>, <<"d">>, <<"d", "d">>, <<"d", "d", "a">>, <<"d", "d", ".b">>}

Files(fl) == {<<"d", "f">>, <<"d", "d", "c.txt">>} \cup
             (IF fl = "posix" THEN {<<"d", "e\\.g">>} ELSE {})

Exists(fl, p) == p \in Directories \cup Files(fl)

IsDir(p) == p \in Directories

\* The characters of an entry's name.
Chars(name) ==
    CASE name = "a"      -> <<"a">>
      [] name = "d"      -> <<"d">>
      [] name = "f"      -> <<"f">>
      [] name = ".b"     -> <<".", "b">>
      [] name = "c.txt"  -> <<"c", ".", "t", "x", "t">>
      [] name = "e\\.g"  -> <<"e", "\\", ".", "g">>

\* Path(base_dir).resolve(): a relative path starts at the working directory,
\* "." is dropped and ".." drops the component before it (the tree holds no
\* symbolic links, and ".." of the root is the root).
RECURSIVE Normalise(_, _)
Normalise(acc, parts) ==
    IF parts = <<>> THEN acc
    ELSE LET h == Head(parts)
             next == CASE h = "."  -> acc
                       [] h = ".." -> IF acc = <<>> THEN acc ELSE SubSeq(acc, 1, Len(acc) - 1)
                       [] OTHER    -> Append(acc, h)
         IN  Normalise(next, Tail(parts))

Resolve(base_dir) == Normalise(IF base_dir.abs THEN <<>> ELSE CWD, base_dir.parts)

\* What a caller passes as base_dir: absolute and relative paths over these
\* components ("n" names nothing in the tree), and ".".
Components == {"d", "n", ".."}
Candidates == [abs : BOOLEAN, parts : SeqsUpTo(Components, MaxParts)]
                  \cup {[abs |-> FALSE, parts |-> <<".">>]}

---------------------------------------------------------------------------
(* Python values *)

VTrue  == [cls |-> "bool", truthy |-> TRUE]
VFalse == [cls |-> "bool", truthy |-> FALSE]
\* Before __init__ has assigned it the instance has no VERBOSE attribute.
VUnset == [cls |-> "unset", truthy |-> FALSE]
\* What a caller passes as verbose: True, False, 'yes', 0.
VerboseValues == {VTrue, VFalse,
                  [cls |-> "str", truthy |-> TRUE], [cls |-> "int", truthy |-> FALSE]}

IsBool(v) == v.cls = "bool"
Truthy(v) == v.truthy

\* str(option)
Str(option) ==
    CASE option = "int:1" -> "1"
      [] option = "int:2" -> "2"
      [] OTHER            -> option

\* The default of __get_feedback__'s no_of_trials.
DefaultTrials == 3

\* The lines an operator types.
Tokens == {"1", "2", "x"}

---------------------------------------------------------------------------
(* __run_checks__ *)

NoResult == [field_name |-> "None", is_validated |-> FALSE, message |-> "",
             raised |-> "none"]

\* __run_checks__ with the two checks in the other order: the type of
\* VERBOSE first.
RunChecksTypeFirst(fl, base_dir, verbose, fail_silently) ==
    IF base_dir = EMPTY THEN
        [NoResult EXCEPT !.raised = "AttributeError"]
    ELSE IF ~IsBool(verbose) THEN
        IF fail_silently
        THEN [field_name |-> "VERBOSE", is_validated |-> FALSE,
              message |-> "VERBOSE_ERROR", raised |-> "none"]
        ELSE [NoResult EXCEPT !.raised = "TypeError"]
    ELSE IF ~Exists(fl, base_dir) THEN
        IF fail_silently
        THEN [field_name |-> "BASE_DIR", is_validated |-> FALSE,
              message |-> "_404_ERROR", raised |-> "none"]
        ELSE [NoResult EXCEPT !.raised = "FileNotFoundError"]
    ELSE [field_name |-> "None", is_validated |-> TRUE,
          message |-> "Internal checks ran successfully", raised |-> "none"]

\* __run_checks__ testing the truth of VERBOSE (`if not self.VERBOSE`) in
\* place of its class.
RunChecksTruthOfVerbose(fl, base_dir, verbose, fail_silently) ==
    IF base_dir = EMPTY THEN
        [NoResult EXCEPT !.raised = "AttributeError"]
    ELSE IF ~Exists(fl, base_dir) THEN
        IF fail_silently
        THEN [field_name |-> "BASE_DIR", is_validated |-> FALSE,
              message |-> "_404_ERROR", raised |-> "none"]
        ELSE [NoResult EXCEPT !.raised = "FileNotFoundError"]
    ELSE IF ~Truthy(verbose) THEN
        IF fail_silently
        THEN [field_name |-> "VERBOSE", is_validated |-> FALSE,
              message |-> "VERBOSE_ERROR", raised |-> "none"]
        ELSE [NoResult EXCEPT !.raised = "TypeError"]
    ELSE [field_name |-> "None", is_validated |-> TRUE,
          message |-> "Internal checks ran successfully", raised |-> "none"]

\* The dict __run_checks__ returns, with the exception it raises instead.
\* BASE_DIR = '' has no exists(): the str raises AttributeError.
__run_checks__(fl, base_dir, verbose, fail_silently) ==
    IF base_dir = EMPTY THEN
        [NoResult EXCEPT !.raised = "AttributeError"]
    ELSE IF ~Exists(fl, base_dir) THEN
        IF fail_silently
        THEN [field_name |-> "BASE_DIR", is_validated |-> FALSE,
              message |-> "_404_ERROR", raised |-> "none"]
        ELSE [NoResult EXCEPT !.raised = "FileNotFoundError"]
    ELSE IF ~IsBool(verbose) THEN
        IF fail_silently
        THEN [field_name |-> "VERBOSE", is_validated |-> FALSE,
              message |-> "VERBOSE_ERROR", raised |-> "none"]
        ELSE [NoResult EXCEPT !.raised = "TypeError"]
    ELSE [field_name |-> "None", is_validated |-> TRUE,
          message |-> "Internal checks ran successfully", raised |-> "none"]

---------------------------------------------------------------------------
(* __separate_msg__ *)

\* stdout after __separate_msg__(msg): the message is printed only when
\* VERBOSE is true.
__separate_msg__(verbose, stdout, msg) ==
    IF Truthy(verbose) THEN Append(stdout, msg) ELSE stdout

---------------------------------------------------------------------------
(* set_base_dir *)

\* set_base_dir without the early return: the checks run whatever run_checks
\* is.
SetBaseDirAlwaysChecks(fl, old, verbose, base_dir, run_checks) ==
    LET new    == Resolve(base_dir)
        checks == __run_checks__(fl, new, verbose, TRUE)
    IN  IF ~Truthy(verbose) THEN
            [BASE_DIR |-> new, log |-> <<>>, err |-> "none"]
        ELSE IF checks.is_validated THEN
            [BASE_DIR |-> new, err |-> "none",
             log |-> __separate_msg__(verbose, <<>>, "Validation of new BASE_DIR was successful")]
        ELSE IF old = EMPTY THEN
            [BASE_DIR |-> new, log |-> <<>>, err |-> "UnboundLocalError"]
        ELSE
            [BASE_DIR |-> old, err |-> "none",
             log |-> __separate_msg__(verbose, <<>>,
                        IF checks.field_name = "BASE_DIR"
                        THEN "Validation of BASE_DIR failed..."
                        ELSE "Validation of VERBOSE failed...")]

\* The BASE_DIR, stdout and exception set_base_dir leaves behind, called
\* with BASE_DIR = old.  TEMP_BASE_DIR is bound only when old is not ''.
set_base_dir(fl, old, verbose, base_dir, run_checks) ==
    LET new    == Resolve(base_dir)
        checks == __run_checks__(fl, new, verbose, TRUE)
    IN  IF ~run_checks THEN
            [BASE_DIR |-> new, log |-> <<>>, err |-> "none"]
        ELSE IF ~Truthy(verbose) THEN
            [BASE_DIR |-> new, log |-> <<>>, err |-> "none"]
        ELSE IF checks.is_validated THEN
            [BASE_DIR |-> new, err |-> "none",
             log |-> __separate_msg__(verbose, <<>>, "Validation of new BASE_DIR was successful")]
        ELSE IF old = EMPTY THEN
            [BASE_DIR |-> new, log |-> <<>>, err |-> "UnboundLocalError"]
        ELSE
            [BASE_DIR |-> old, err |-> "none",
             log |-> __separate_msg__(verbose, <<>>,
                        IF checks.field_name = "BASE_DIR"
                        THEN "Validation of BASE_DIR failed..."
                        ELSE "Validation of VERBOSE failed...")]

---------------------------------------------------------------------------
(* _discover_paths *)

\* discovered_path.match(r'*\.*').  The pattern is a glob.  On posix the
\* backslash is an ordinary character, so the pattern is one component and
\* matches a name holding a backslash followed by a dot.  On nt the
\* backslash separates components, so the pattern is '*' then '.*' and
\* matches a name that starts with a dot, under any parent.
Match(fl, name) ==
    LET cs == Chars(name)
    IN  IF fl = "posix"
        THEN \E i \in 1..(Len(cs) - 1) : cs[i] = "\\" /\ cs[i + 1] = "."
        ELSE Len(cs) >= 1 /\ cs[1] = "."

\* The names left in the iterator _discover_paths returns, its stdout and
\* the exception iterating a missing directory raises (the str '' has no
\* iterdir()).  With VERBOSE true
\* the listing is printed from the iterator itself, which uses it up.
_discover_paths(fl, base_dir, verbose, directory_only, exclude_hidden) ==
    LET listed   == Entries(fl, base_dir)
        KeepDir(name) == IsDir(Append(base_dir, name))
        dirs     == IF directory_only THEN SelectSeq(listed, KeepDir) ELSE listed
        KeepShown(name) == ~Match(fl, name)
        filtered == IF exclude_hidden THEN SelectSeq(dirs, KeepShown) ELSE dirs
    IN  IF base_dir = EMPTY THEN
            [out |-> <<>>, log |-> <<>>, err |-> "AttributeError"]
        ELSE IF ~Exists(fl, base_dir) THEN
            [out |-> <<>>, log |-> <<>>, err |-> "FileNotFoundError"]
        ELSE IF Truthy(verbose) THEN
            [out |-> <<>>, err |-> "none",
             log |-> __separate_msg__(verbose, <<>>, "Path(s) discovered")]
        ELSE
            [out |-> filtered, log |-> <<>>, err |-> "none"]

---------------------------------------------------------------------------
(* __get_feedback__ *)

\* _convert_valid_options_to_string without its test for an empty tuple.
ConvertWithoutEmptyTest(options) ==
    [raised |-> "none",
     VALID_OPTIONS |-> [i \in 1..Len(options) |-> Str(options[i])]]

\* VALID_OPTIONS after _convert_valid_options_to_string, which raises
\* ValueError on an empty tuple.
_convert_valid_options_to_string(options) ==
    IF Len(options) < 1
    THEN [raised |-> "ValueError", VALID_OPTIONS |-> options]
    ELSE [raised |-> "none",
          VALID_OPTIONS |-> [i \in 1..Len(options) |-> Str(options[i])]]

\* final_trial tested one value late, so that it is never true in the loop.
FinalTrialOneLate(trial, trials) == trial = trials

\* final_trial = num == no_of_trials - 1
FinalTrial(trial, trials) == trial = trials - 1

\* The loop body without the `return` after yes().
LoopBodyYesFallsThrough(trial, trials, options, verbose, stdout, feedback) ==
    LET final_trial == FinalTrial(trial, trials)
        prompted == Append(stdout, IF final_trial THEN "input: This is your last trial"
                                   ELSE "input")
    IN  IF feedback \notin Range(options) THEN
            [called |-> "none", outcome |-> "continue",
             log |-> IF ~final_trial
                     THEN Append(__separate_msg__(verbose, prompted, "Provided option is invalid"),
                                 "Choose an option")
                     ELSE prompted]
        ELSE IF feedback = "1" THEN
            [called |-> "yes", outcome |-> "continue",
             log |-> Append(__separate_msg__(verbose, prompted, "Defaulting to DEFAULT_BASE_DIR"),
                            "yes()")]
        ELSE IF feedback = "2" THEN
            [called |-> "no", outcome |-> "continue",
             log |-> Append(__separate_msg__(verbose, prompted, "Exiting application..."),
                            "no() in loop")]
        ELSE [called |-> "none", outcome |-> "continue", log |-> prompted]

\* The loop body with a `return` after no().
LoopBodyNoReturns(trial, trials, options, verbose, stdout, feedback) ==
    LET final_trial == FinalTrial(trial, trials)
        prompted == Append(stdout, IF final_trial THEN "input: This is your last trial"
                                   ELSE "input")
    IN  IF feedback \notin Range(options) THEN
            [called |-> "none", outcome |-> "continue",
             log |-> IF ~final_trial
                     THEN Append(__separate_msg__(verbose, prompted, "Provided option is invalid"),
                                 "Choose an option")
                     ELSE prompted]
        ELSE IF feedback = "1" THEN
            [called |-> "yes", outcome |-> "return",
             log |-> Append(__separate_msg__(verbose, prompted, "Defaulting to DEFAULT_BASE_DIR"),
                            "yes()")]
        ELSE IF feedback = "2" THEN
            [called |-> "no", outcome |-> "return",
             log |-> Append(__separate_msg__(verbose, prompted, "Exiting application..."),
                            "no() in loop")]
        ELSE [called |-> "none", outcome |-> "continue", log |-> prompted]

\* One pass of the loop body on the line `feedback`: stdout and the callback
\* invocations after it, the callback it called ("yes", "no" or "none") and
\* how the pass ends once that callback has returned: "continue" (on to the
\* next value of the range) or "return".
LoopBody(trial, trials, options, verbose, stdout, feedback) ==
    LET final_trial == FinalTrial(trial, trials)
        prompted == Append(stdout, IF final_trial THEN "input: This is your last trial"
                                   ELSE "input")
    IN  IF feedback \notin Range(options) THEN
            [called |-> "none", outcome |-> "continue",
             log |-> IF ~final_trial
                     THEN Append(__separate_msg__(verbose, prompted, "Provided option is invalid"),
                                 "Choose an option")
                     ELSE prompted]
        ELSE IF feedback = "1" THEN
            [called |-> "yes", outcome |-> "return",
             log |-> Append(__separate_msg__(verbose, prompted, "Defaulting to DEFAULT_BASE_DIR"),
                            "yes()")]
        ELSE IF feedback = "2" THEN
            [called |-> "no", outcome |-> "continue",
             log |-> Append(__separate_msg__(verbose, prompted, "Exiting application..."),
                            "no() in loop")]
        ELSE [called |-> "none", outcome |-> "continue", log |-> prompted]

\* A range that runs one value too far.
MoreTrialsOneTooMany(trial, trials) == trial < trials

\* range(no_of_trials) has a value after `trial`.
MoreTrials(trial, trials) == trial + 1 < trials

\* The statements after the loop, without the call of no().
AfterLoopWithoutNo(verbose, stdout) ==
    __separate_msg__(verbose, stdout, "Too many invalid attempts")

\* The statements after the loop.
AfterLoop(verbose, stdout) ==
    Append(__separate_msg__(verbose, stdout, "Too many invalid attempts"), "no() after loop")

---------------------------------------------------------------------------
(* The calls *)

NoCall == [op |-> "none", base_dir |-> EMPTY, run_checks |-> FALSE,
           fail_silently |-> FALSE, directory_only |-> FALSE, exclude_hidden |-> FALSE]

\* No call is made while the process is blocked in input() or has exited.
Ready == pc \in {"idle", "done"}

\* What every call that is not a prompt leaves of the previous one.
Returned ==
    /\ pc' = "idle"
    /\ num' = 0
    /\ no_of_trials' = 0
    /\ noExits' = FALSE
    /\ ctx' = "call"
    /\ kw' = VTrue
    /\ inputs' = <<>>

\* BaseCleaner(base_dir, verbose=verbose) with a base_dir that is true:
\* __new__ stores the instance, __init__ sets BASE_DIR without checks, takes
\* the keyword and runs the checks, raising what they raise.
New(base_dir, verbose) ==
    /\ Ready
    /\ LET set == set_base_dir(flavour, BASE_DIR, VERBOSE, base_dir, FALSE)
       IN  /\ instance' = TRUE
           /\ BASE_DIR' = set.BASE_DIR
           /\ VERBOSE' = verbose
           /\ err' = __run_checks__(flavour, set.BASE_DIR, verbose, FALSE).raised
           /\ log' = set.log
    /\ call' = [NoCall EXCEPT !.op = "__init__", !.base_dir = Resolve(base_dir)]
    /\ res' = NoResult
    /\ out' = <<>>
    /\ Returned
    /\ UNCHANGED <<flavour, VALID_OPTIONS>>

\* The start of __get_feedback__ without `cls.VERBOSE = True`.
PromptKeepsVerbose(caller, trials, exits, verbose) ==
    LET converted == _convert_valid_options_to_string(VALID_OPTIONS)
    IN  /\ VERBOSE' = VERBOSE
        /\ VALID_OPTIONS' = converted.VALID_OPTIONS
        /\ err' = converted.raised
        /\ IF converted.raised = "none"
           THEN /\ log' = <<"info">>
                /\ pc' = "loop"
                /\ no_of_trials' = trials
                /\ noExits' = exits
                /\ ctx' = caller
                /\ kw' = verbose
           ELSE /\ log' = <<>>
                /\ pc' = "idle"
                /\ no_of_trials' = 0
                /\ noExits' = FALSE
                /\ ctx' = "call"
                /\ kw' = VTrue
        /\ num' = 0
        /\ inputs' = <<>>
        /\ res' = NoResult
        /\ out' = <<>>

\* The start of __get_feedback__, up to the first input().
Prompt(caller, trials, exits, verbose) ==
    LET converted == _convert_valid_options_to_string(VALID_OPTIONS)
    IN  /\ VERBOSE' = VTrue
        /\ VALID_OPTIONS' = converted.VALID_OPTIONS
        /\ err' = converted.raised
        /\ IF converted.raised = "none"
           THEN /\ log' = <<"info">>
                /\ pc' = "loop"
                /\ no_of_trials' = trials
                /\ noExits' = exits
                /\ ctx' = caller
                /\ kw' = verbose
           ELSE /\ log' = <<>>
                /\ pc' = "idle"
                /\ no_of_trials' = 0
                /\ noExits' = FALSE
                /\ ctx' = "call"
                /\ kw' = VTrue
        /\ num' = 0
        /\ inputs' = <<>>
        /\ res' = NoResult
        /\ out' = <<>>

\* BaseCleaner(verbose=verbose), with no base_dir: __init__ asks whether to
\* use DEFAULT_BASE_DIR, with the default no (exit(0)) and 3 trials.
NewDefault(verbose) ==
    /\ Ready
    /\ instance' = TRUE
    /\ Prompt("init", DefaultTrials, TRUE, verbose)
    /\ call' = [NoCall EXCEPT !.op = "__init__"]
    /\ UNCHANGED <<flavour, BASE_DIR>>

\* instance.__get_feedback__(info, yes, no, no_of_trials) with callbacks
\* that touch nothing of the instance; no either returns or ends the
\* process.
GetFeedback(trials, exits) ==
    /\ Ready
    /\ instance
    /\ Prompt("call", trials, exits, VTrue)
    /\ call' = [NoCall EXCEPT !.op = "__get_feedback__"]
    /\ UNCHANGED <<flavour, instance, BASE_DIR>>

\* input() returns `feedback`: the loop body runs on it, and then whatever
\* follows without another input(): the callback, the statements after the
\* loop, the rest of __init__.  In __init__ yes() sets BASE_DIR to
\* DEFAULT_BASE_DIR and no() is exit(0); after __get_feedback__ returns,
\* __init__ takes the verbose keyword and runs the checks.
Trial(feedback) ==
    /\ pc = "loop"
    /\ inputs' = Append(inputs, feedback)
    /\ LET body   == LoopBody(num, no_of_trials, VALID_OPTIONS, VERBOSE, log, feedback)
           chosen == IF body.called = "yes" /\ ctx = "init" THEN DEFAULT_BASE_DIR ELSE BASE_DIR
       IN  IF body.called = "no" /\ noExits THEN
               /\ log' = body.log
               /\ pc' = "exit(0)"
               /\ num' = num
               /\ UNCHANGED <<BASE_DIR, VERBOSE, err>>
           ELSE IF body.outcome = "return" THEN
               /\ log' = body.log
               /\ pc' = "done"
               /\ num' = num
               /\ BASE_DIR' = chosen
               /\ IF ctx = "init"
                  THEN /\ VERBOSE' = kw
                       /\ err' = __run_checks__(flavour, chosen, kw, FALSE).raised
                  ELSE UNCHANGED <<VERBOSE, err>>
           ELSE IF MoreTrials(num, no_of_trials) THEN
               /\ log' = body.log
               /\ pc' = "loop"
               /\ num' = num + 1
               /\ BASE_DIR' = chosen
               /\ UNCHANGED <<VERBOSE, err>>
           ELSE
               /\ log' = AfterLoop(VERBOSE, body.log)
               /\ pc' = IF noExits THEN "exit(0)" ELSE "done"
               /\ num' = num
               /\ BASE_DIR' = chosen
               /\ UNCHANGED <<VERBOSE, err>>
    /\ UNCHANGED <<flavour, instance, VALID_OPTIONS, call, res, out,
                   no_of_trials, noExits, ctx, kw>>

\* instance.set_base_dir(base_dir, run_checks=run_checks)
SetBaseDir(base_dir, run_checks) ==
    /\ Ready
    /\ instance
    /\ LET set == set_base_dir(flavour, BASE_DIR, VERBOSE, base_dir, run_checks)
       IN  /\ BASE_DIR' = set.BASE_DIR
           /\ log' = set.log
           /\ err' = set.err
    /\ call' = [NoCall EXCEPT !.op = "set_base_dir", !.base_dir = Resolve(base_dir),
                              !.run_checks = run_checks]
    /\ res' = NoResult
    /\ out' = <<>>
    /\ Returned
    /\ UNCHANGED <<flavour, instance, VERBOSE, VALID_OPTIONS>>

\* instance.__run_checks__(fail_silently)
RunChecks(fail_silently) ==
    /\ Ready
    /\ instance
    /\ LET checks == __run_checks__(flavour, BASE_DIR, VERBOSE, fail_silently)
       IN  /\ res' = [checks EXCEPT !.raised = "none"]
           /\ err' = checks.raised
    /\ call' = [NoCall EXCEPT !.op = "__run_checks__", !.fail_silently = fail_silently]
    /\ log' = <<>>
    /\ out' = <<>>
    /\ Returned
    /\ UNCHANGED <<flavour, instance, BASE_DIR, VERBOSE, VALID_OPTIONS>>

\* list(instance._discover_paths(directory_only=..., exclude_hidden=...))
DiscoverPaths(directory_only, exclude_hidden) ==
    /\ Ready
    /\ instance
    /\ LET found == _discover_paths(flavour, BASE_DIR, VERBOSE, directory_only, exclude_hidden)
       IN  /\ out' = found.out
           /\ log' = found.log
           /\ err' = found.err
    /\ call' = [NoCall EXCEPT !.op = "_discover_paths", !.directory_only = directory_only,
                              !.exclude_hidden = exclude_hidden]
    /\ res' = NoResult
    /\ Returned
    /\ UNCHANGED <<flavour, instance, BASE_DIR, VERBOSE, VALID_OPTIONS>>

---------------------------------------------------------------------------
(* The specification *)

\* The class as defined, before the first BaseCleaner(...).
Init ==
    /\ flavour \in {"posix", "nt"}
    /\ instance = FALSE
    /\ BASE_DIR = EMPTY
    /\ VERBOSE = VUnset
    /\ VALID_OPTIONS = <<"int:1", "int:2">>
    /\ call = NoCall
    /\ err = "none"
    /\ res = NoResult
    /\ out = <<>>
    /\ log = <<>>
    /\ pc = "idle"
    /\ num = 0
    /\ no_of_trials = 0
    /\ noExits = FALSE
    /\ ctx = "call"
    /\ kw = VTrue
    /\ inputs = <<>>

Next ==
    \/ \E base_dir \in Candidates, verbose \in VerboseValues : New(base_dir, verbose)
    \/ \E verbose \in VerboseValues : NewDefault(verbose)
    \/ \E trials \in 1..MaxTrials, exits \in BOOLEAN : GetFeedback(trials, exits)
    \/ \E feedback \in Tokens : Trial(feedback)
    \/ \E base_dir \in Candidates, run_checks \in BOOLEAN : SetBaseDir(base_dir, run_checks)
    \/ \E fail_silently \in BOOLEAN : RunChecks(fail_silently)
    \/ \E directory_only \in BOOLEAN, exclude_hidden \in BOOLEAN :
          DiscoverPaths(directory_only, exclude_hidden)

Spec == Init /\ [][Next]_vars

\* VALID_OPTIONS as a subclass may declare it: empty, the default ints, or
\* strs already.
OptionTuples == {<<>>, <<"int:1", "int:2">>, <<"1", "2">>}

InitOptions ==
    /\ flavour \in {"posix", "nt"}
    /\ instance = FALSE
    /\ BASE_DIR = EMPTY
    /\ VERBOSE = VUnset
    /\ VALID_OPTIONS \in OptionTuples
    /\ call = NoCall
    /\ err = "none"
    /\ res = NoResult
    /\ out = <<>>
    /\ log = <<>>
    /\ pc = "idle"
    /\ num = 0
    /\ no_of_trials = 0
    /\ noExits = FALSE
    /\ ctx = "call"
    /\ kw = VTrue
    /\ inputs = <<>>

\* The calls that reach __get_feedback__; the others neither read nor write
\* VALID_OPTIONS.
NextOptions ==
    \/ \E verbose \in VerboseValues : NewDefault(verbose)
    \/ \E trials \in 1..MaxTrials, exits \in BOOLEAN : GetFeedback(trials, exits)
    \/ \E feedback \in Tokens : Trial(feedback)

\* The prompt over each declaration of VALID_OPTIONS.
SpecOptions == InitOptions /\ [][NextOptions]_vars

\* Each input() returns: the operator types a line.
FairSpec == Spec /\ WF_vars(\E feedback \in Tokens : Trial(feedback))

---------------------------------------------------------------------------
(* set_base_dir: fallback to the last valid BASE_DIR *)

\* The step is a call of set_base_dir(..., run_checks=True).
CheckedSet == call'.op = "set_base_dir" /\ call'.run_checks

\* C1: set_base_dir(V, run_checks=True) with V existing, followed by
\* set_base_dir(P, run_checks=True) with P missing, leaves BASE_DIR equal to
\* the resolved V, whether VERBOSE is True or False.
C1_RevertsToLastGood ==
    [][(/\ call.op = "set_base_dir" /\ call.run_checks
        /\ Exists(flavour, call.base_dir)
        /\ IsBool(VERBOSE)
        /\ CheckedSet
        /\ ~Exists(flavour, call'.base_dir))
       => BASE_DIR' = call.base_dir]_vars

\* C2: from a BASE_DIR that exists, every set_base_dir(..., run_checks=True)
\* returns with a BASE_DIR that exists, whatever VERBOSE holds.
C2_CheckedSetKeepsExisting ==
    [][(Exists(flavour, BASE_DIR) /\ CheckedSet) => Exists(flavour, BASE_DIR')]_vars

---------------------------------------------------------------------------
(* __run_checks__: the order and the outcome of the checks *)

Checked == call.op = "__run_checks__"

\* C7: with a BASE_DIR that does not exist, __run_checks__ reports the
\* existence failure whatever VERBOSE holds: FileNotFoundError when
\* fail_silently is False, field_name 'BASE_DIR' and is_validated False when
\* it is True; the VERBOSE failure is not reported.
C7_ExistenceCheckedFirst ==
    (Checked /\ ~Exists(flavour, BASE_DIR)) =>
        /\ res.field_name # "VERBOSE"
        /\ err # "TypeError"
        /\ IF call.fail_silently
           THEN err = "none" /\ res.field_name = "BASE_DIR" /\ ~res.is_validated
           ELSE err = "FileNotFoundError"

\* C7's case: a missing BASE_DIR and a VERBOSE that is no bool, checked
\* silently.
C7_Witness ==
    /\ Checked /\ call.fail_silently
    /\ ~Exists(flavour, BASE_DIR)
    /\ ~IsBool(VERBOSE)
    /\ res.field_name = "BASE_DIR"

\* C8: with a BASE_DIR that exists, __run_checks__ succeeds (field_name None,
\* is_validated True) exactly when VERBOSE is a bool; otherwise it raises
\* TypeError when fail_silently is False and returns field_name 'VERBOSE',
\* is_validated False when it is True; VERBOSE is left as it was.
C8_VerboseMustBeBool ==
    [][(call'.op = "__run_checks__" /\ Exists(flavour, BASE_DIR)) =>
        /\ VERBOSE' = VERBOSE
        /\ (res'.is_validated <=> IsBool(VERBOSE))
        /\ IF IsBool(VERBOSE)
           THEN err' = "none" /\ res'.field_name = "None"
           ELSE IF call'.fail_silently
           THEN err' = "none" /\ res'.field_name = "VERBOSE"
           ELSE err' = "TypeError"]_vars

\* C8's cases: an existing BASE_DIR checked silently with VERBOSE = 0, which
\* is false and no bool.
C8_Witness ==
    /\ Checked /\ call.fail_silently
    /\ Exists(flavour, BASE_DIR)
    /\ ~IsBool(VERBOSE) /\ ~Truthy(VERBOSE)
    /\ res.field_name = "VERBOSE" /\ ~res.is_validated

---------------------------------------------------------------------------
(* _discover_paths *)

Discovered == call.op = "_discover_paths" /\ err = "none"

\* The entries of directory p that are directories, in iteration order.
Subdirectories(fl, p) ==
    LET Sub(name) == Append(p, name) \in Directories
    IN  SelectSeq(Entries(fl, p), Sub)

HasFilesAndSubdirectories(fl, p) ==
    /\ \E name \in Range(Entries(fl, p)) : Append(p, name) \in Directories
    /\ \E name \in Range(Entries(fl, p)) : Append(p, name) \in Files(fl)

\* C9: over a BASE_DIR holding files and subdirectories, iterating the
\* result of _discover_paths(directory_only=True) yields exactly the
\* subdirectories, in iteration order, with VERBOSE true or false.
C9_DirectoryOnlyYieldsSubdirectories ==
    (/\ Discovered /\ call.directory_only /\ ~call.exclude_hidden
     /\ HasFilesAndSubdirectories(flavour, BASE_DIR))
    => out = Subdirectories(flavour, BASE_DIR)

HasDot(name) == \E i \in 1..Len(Chars(name)) : Chars(name)[i] = "."

\* The entries of directory p whose name holds no dot, in iteration order.
Dotless(fl, p) ==
    LET Plain(name) == ~HasDot(name)
    IN  SelectSeq(Entries(fl, p), Plain)

\* C10: _discover_paths(exclude_hidden=True) yields the entries whose name
\* holds no dot and no other: over a, .b, c.txt it yields a alone.  (Stated
\* with VERBOSE false, where printing the listing has not used up the
\* result.)
C10_ExcludeHiddenDropsDottedNames ==
    (/\ Discovered /\ call.exclude_hidden /\ ~call.directory_only
     /\ ~Truthy(VERBOSE))
    => out = Dotless(flavour, BASE_DIR)

---------------------------------------------------------------------------
(* __get_feedback__ *)

\* A prompt has started (and may have ended).
Prompted == pc # "idle"

Ended == pc \in {"done", "exit(0)"}

\* How many times input() was called.
Reads == Count(log, "input") + Count(log, "input: This is your last trial")

NoCalls == Count(log, "no() in loop") + Count(log, "no() after loop")

Last(s) == s[Len(s)]

\* C3: once the line read is "1", yes has been called exactly once and the
\* prompt has returned: that line is the last one read, there is no "Too
\* many invalid attempts" message and no call of no after the loop.  The
\* lines x, 1 with no_of_trials = 3 give one invalid-option message, one
\* call of yes and two reads.
C3_YesReturnsAtOnce ==
    (Prompted /\ "1" \in Range(inputs)) =>
        /\ pc = "done"
        /\ Count(log, "yes()") = 1
        /\ Last(inputs) = "1" /\ Count(inputs, "1") = 1
        /\ Reads = Len(inputs)
        /\ Count(log, "Too many invalid attempts") = 0
        /\ Count(log, "no() after loop") = 0
        /\ (inputs = <<"x", "1">> /\ no_of_trials = 3 =>
               /\ Count(log, "Provided option is invalid") = 1
               /\ Reads = 2)

\* C3's case: x then 1, of three trials.
C3_Witness ==
    /\ pc = "done"
    /\ no_of_trials = 3
    /\ inputs = <<"x", "1">>
    /\ Last(log) = "yes()"

AllInvalid == \A i \in 1..Len(inputs) : inputs[i] \notin {"1", "2"}

\* C4: when each of the no_of_trials lines read is invalid, yes is never
\* called, "Too many invalid attempts" is printed after the last trial, and
\* no is called exactly once, after the loop.
C4_ExhaustionCallsNoOnce ==
    (Prompted /\ AllInvalid /\ Len(inputs) = no_of_trials) =>
        /\ Ended
        /\ Count(log, "yes()") = 0
        /\ Count(log, "Too many invalid attempts") = 1
        /\ NoCalls = 1
        /\ Len(log) >= 2
        /\ Last(log) = "no() after loop"
        /\ log[Len(log) - 1] = "Too many invalid attempts"
        /\ Reads = no_of_trials

\* C4's case: x, x, x of three trials, with a no that returns.
C4_Witness ==
    /\ pc = "done"
    /\ no_of_trials = 3
    /\ inputs = <<"x", "x", "x">>
    /\ Last(log) = "no() after loop"

\* C5: when the line read on a trial that is not the last is "2" and no
\* returns, "Exiting application..." is printed, no is called, and the loop
\* goes on to the input() of the next trial; the prompt never ends on such
\* a line.
C5_NoInLoopDoesNotReturn ==
    /\ [][(/\ pc = "loop" /\ ~noExits
           /\ num + 1 < no_of_trials
           /\ inputs' = Append(inputs, "2"))
          => /\ pc' = "loop"
             /\ num' = num + 1
             /\ log' = log \o <<"input", "Exiting application...", "no() in loop">>]_vars
    /\ [](Ended /\ ~noExits /\ inputs # <<>> /\ Last(inputs) = "2"
            => Len(inputs) = no_of_trials)

\* C5's case: 2 on the first trial, a no that returns, and the line of the
\* second trial read.
C5_Witness ==
    /\ Prompted /\ ~noExits
    /\ Len(inputs) >= 2
    /\ inputs[1] = "2"
    /\ Count(log, "no() in loop") >= 1
    /\ Reads >= 2

\* C6: the prompt ends, having read at most no_of_trials lines: with
\* callbacks that return, exactly no_of_trials when no line is "1", and fewer
\* only when a "1" was read.  An invalid line raises nothing: past the last
\* trial the prompt ends with the call of no after the loop.
C6_BoundedTrials ==
    /\ [](Prompted =>
            /\ Reads = Len(inputs)
            /\ Len(inputs) <= no_of_trials
            /\ ("1" \notin Range(inputs) => err = "none"))
    /\ [](Ended /\ ~noExits =>
            /\ ("1" \notin Range(inputs) =>
                   /\ Len(inputs) = no_of_trials
                   /\ Last(log) = "no() after loop")
            /\ (Len(inputs) < no_of_trials => "1" \in Range(inputs)))
    /\ (pc = "loop" ~> Ended)

\* C6's case: a prompt whose no returns, ended after three lines none of
\* which is "1".
C6_Witness ==
    /\ pc = "done" /\ ~noExits
    /\ no_of_trials = 3
    /\ Len(inputs) = 3
    /\ "1" \notin Range(inputs)
    /\ "2" \in Range(inputs)

---------------------------------------------------------------------------
(* set_base_dir without checks *)

\* C11: set_base_dir(candidate, run_checks=False) sets BASE_DIR to the
\* resolved candidate, whether or not it exists: nothing is validated,
\* reported or reverted, nothing is raised, and VERBOSE is left as it was.
C11_UncheckedSetCommits ==
    [][(call'.op = "set_base_dir" /\ ~call'.run_checks) =>
        /\ BASE_DIR' = call'.base_dir
        /\ VERBOSE' = VERBOSE
        /\ err' = "none"
        /\ log' = <<>>
        /\ res' = NoResult]_vars

\* C11's case: a missing path set without checks while VERBOSE is true, where
\* a checked call would have reverted.
C11_Witness ==
    /\ call.op = "set_base_dir" /\ ~call.run_checks
    /\ ~Exists(flavour, call.base_dir)
    /\ BASE_DIR = call.base_dir
    /\ Truthy(VERBOSE)

---------------------------------------------------------------------------
(* __get_feedback__: what each trial prints *)

IsInput(event) == event \in {"input", "input: This is your last trial"}

\* The prompts shown, one for each input() called, in order.
PromptsShown == SelectSeq(log, IsInput)

\* The trials (numbered from 1) on which the line read was invalid, the last
\* trial left out.
InvalidBeforeLast ==
    {i \in 1..Len(inputs) : inputs[i] \notin {"1", "2"} /\ i < no_of_trials}

\* C12: the prompt of a trial carries "This is your last trial" exactly when
\* the trial's index is no_of_trials - 1; the invalid-option message is
\* printed once for each invalid line read on an earlier trial and never for
\* an invalid line read on the last trial.
C12_LastTrialPrefixAndDiagnostics ==
    Prompted =>
        /\ Len(PromptsShown) = Len(inputs)
        /\ \A k \in 1..Len(PromptsShown) :
              PromptsShown[k] = "input: This is your last trial" <=> k - 1 = no_of_trials - 1
        /\ Count(log, "Provided option is invalid") = Cardinality(InvalidBeforeLast)
        /\ Count(log, "Choose an option") = Cardinality(InvalidBeforeLast)

\* C12's case: three invalid lines of three trials: two invalid-option
\* messages, and the third prompt carries the prefix.
C12_Witness ==
    /\ Ended
    /\ no_of_trials = 3
    /\ inputs = <<"x", "x", "x">>
    /\ Count(log, "Provided option is invalid") = 2
    /\ PromptsShown = <<"input", "input", "input: This is your last trial">>

---------------------------------------------------------------------------
(* __get_feedback__: VALID_OPTIONS *)

\* The most recent call is one that starts with __get_feedback__.
PromptCall ==
    \/ call.op = "__get_feedback__"
    \/ call.op = "__init__" /\ call.base_dir = EMPTY

\* C13: with VALID_OPTIONS empty the prompt raises ValueError before the
\* info is printed and before any line is read, and calls neither yes nor
\* no.  Otherwise every option is a str before the first comparison, so that
\* with the default (1, 2) each line "1" is answered by yes and each line
\* "2" by no.
C13_OptionsCheckedAndStringified ==
    /\ (PromptCall /\ VALID_OPTIONS = <<>>) =>
          /\ err = "ValueError"
          /\ ~Prompted
          /\ log = <<>>
          /\ inputs = <<>>
    /\ Prompted =>
          /\ VALID_OPTIONS = <<"1", "2">>
          /\ Count(log, "yes()") = Count(inputs, "1")
          /\ Count(log, "no() in loop") = Count(inputs, "2")

\* C13's first case: a prompt started over an empty VALID_OPTIONS.
C13_Witness ==
    /\ PromptCall
    /\ VALID_OPTIONS = <<>>
    /\ err = "ValueError"
    /\ instance

---------------------------------------------------------------------------
(* __get_feedback__: how often no is called *)

\* C14: in a prompt whose no returns, no has been called, when the prompt
\* ends, once for each line "2" read and once more when no line "1" was
\* read: at most no_of_trials + 1 times.  yes and the call of no after the
\* loop are never both made.
C14_NoCallsCounted ==
    Prompted =>
        /\ ~noExits => Count(log, "no() in loop") = Count(inputs, "2")
        /\ (Ended /\ ~noExits) =>
              NoCalls = Count(inputs, "2") + (IF "1" \in Range(inputs) THEN 0 ELSE 1)
        /\ NoCalls <= no_of_trials + 1
        /\ ~(Count(log, "yes()") > 0 /\ Count(log, "no() after loop") > 0)

\* C14's extreme: "2" on each of three trials, and no called four times.
C14_Witness ==
    /\ pc = "done" /\ ~noExits
    /\ no_of_trials = 3
    /\ inputs = <<"2", "2", "2">>
    /\ NoCalls = 4

---------------------------------------------------------------------------
(* __get_feedback__: VERBOSE and BASE_DIR *)

\* C15: the prompt sets VERBOSE to True before it prompts and does not set
\* it back: each of its messages is printed whatever VERBOSE was, and
\* VERBOSE is True while it runs and when it has returned (until __init__,
\* when it is the caller, assigns its verbose keyword).  BASE_DIR changes
\* in a prompt only by what yes does.
C15_PromptForcesVerbose ==
    /\ [](Prompted /\ (ctx = "call" \/ pc # "done") => VERBOSE = VTrue)
    /\ [](Prompted =>
            /\ Count(log, "Provided option is invalid") = Count(log, "Choose an option")
            /\ Count(log, "Defaulting to DEFAULT_BASE_DIR") = Count(log, "yes()")
            /\ Count(log, "Exiting application...") = Count(log, "no() in loop")
            /\ Count(log, "Too many invalid attempts") = Count(log, "no() after loop"))
    /\ [][(pc # "loop" /\ pc' = "loop") =>
             VERBOSE' = VTrue /\ BASE_DIR' = BASE_DIR]_vars
    /\ [][pc = "loop" =>
             \/ BASE_DIR' = BASE_DIR
             \/ ctx = "init" /\ Last(log') = "yes()" /\ BASE_DIR' = DEFAULT_BASE_DIR]_vars

\* C15's case: a direct call that has returned after an invalid line, its
\* message printed and VERBOSE True.
C15_Witness ==
    /\ call.op = "__get_feedback__"
    /\ pc = "done"
    /\ VERBOSE = VTrue
    /\ Count(log, "Provided option is invalid") >= 1
    /\ Count(log, "Too many invalid attempts") = 1

---------------------------------------------------------------------------
(* __init__ *)

\* BaseCleaner(...) was called without a base_dir.
ByDefault == call.op = "__init__" /\ call.base_dir = EMPTY

\* The most recent call is a BaseCleaner(...) that has returned, raising
\* nothing.
Constructed ==
    /\ call.op = "__init__"
    /\ err = "none"
    /\ IF ByDefault THEN pc = "done" ELSE pc = "idle"

\* C16: when BaseCleaner(...) returns normally, BASE_DIR is set and exists
\* and VERBOSE is a bool: BASE_DIR is the resolved base_dir when one was
\* given, and otherwise DEFAULT_BASE_DIR, "1" having been read within 3
\* trials.  On a line "2", or when the 3 trials are used up, the process
\* exits with status 0 and nothing more happens.  So a call of set_base_dir
\* always finds a BASE_DIR to fall back on.
C16_ConstructedIsValid ==
    /\ [](Constructed =>
            /\ BASE_DIR # EMPTY
            /\ Exists(flavour, BASE_DIR)
            /\ IsBool(VERBOSE)
            /\ IF ByDefault
               THEN /\ BASE_DIR = DEFAULT_BASE_DIR
                    /\ "1" \in Range(inputs)
                    /\ Len(inputs) <= DefaultTrials
                    /\ no_of_trials = DefaultTrials
               ELSE BASE_DIR = call.base_dir)
    /\ []((/\ ByDefault /\ Prompted
           /\ \/ "2" \in Range(inputs)
              \/ Len(inputs) = DefaultTrials /\ "1" \notin Range(inputs))
          => pc = "exit(0)")
    /\ [][pc # "exit(0)"]_vars
    /\ []((instance /\ Ready) => BASE_DIR # EMPTY)
    /\ [](err # "UnboundLocalError")

\* C16's case: no base_dir, and "1" on the last of the three trials.
C16_Witness ==
    /\ Constructed /\ ByDefault
    /\ inputs = <<"x", "x", "1">>
    /\ BASE_DIR = DEFAULT_BASE_DIR
    /\ IsBool(VERBOSE) /\ ~Truthy(VERBOSE)

===========================================================================
